---------------------------- MODULE Spec2Model ----------------------------
(***************************************************************************)
(* Model of the two battle plugins:                                        *)
(*   KOFFIN_TargetRateFIx.js   AIManager.setRandomTarget                   *)
(*   KOFFIN_InBattleStatus.js  Window_ActorInfo and the Scene_Battle hooks *)
(*                                                                         *)
(* Numbers.  Weights and the draw are JavaScript numbers.  Target rates    *)
(* are modelled as whole numbers, and Math.random() as k / RandSteps, so   *)
(* that randomValue = k * totalWeight / RandSteps; the model keeps         *)
(* randomValue multiplied by RandSteps and compares it with                *)
(* weightSum * RandSteps, which is exact.                                  *)
(* Text is a sequence of one-character strings.                            *)
(***************************************************************************)
EXTENDS Integers, Sequences, FiniteSets, TLC

VARIABLES
    group,            \* setRandomTarget: the argument
    random,           \* setRandomTarget: numerator k of Math.random() = k / RandSteps
    weights,          \* setRandomTarget: the local array weights
    setTargetCalls,   \* the arguments of this.action().setTarget, in call order
    actorInfoWindow,  \* Scene_Battle._actorInfoWindow (a Window_ActorInfo)
    frame,            \* what the host supplied to the last Scene_Battle handler
    call,             \* the last call of a Window_ActorInfo helper and its arguments
    ret,              \* what that call returned or drew
    pc                \* "call" before the called function has run, "done" after

vars == <<group, random, weights, setTargetCalls, actorInfoWindow, frame, call, ret, pc>>

(***************************************************************************)
(* Bounds                                                                  *)
(***************************************************************************)
UnitSize == 3        \* members of the unit the group is taken from
MaxFilterLen == 3    \* length of the state lists given to filterStates
MaxTraits == 2       \* traits of a state given to getStateDescription
MaxText == 7         \* characters of a <Desc:text> description given to drawState
MaxGridStates == 11  \* states of the actor given to drawStatesSection
boxHeight == 160     \* Graphics.boxHeight (host): the y of the hidden window
RandSteps == 4       \* Math.random() ranges over 0/RandSteps .. (RandSteps-1)/RandSteps

(***************************************************************************)
(* KOFFIN_TargetRateFIx.js                                                 *)
(***************************************************************************)

\* target.tgr: absent (<<>>), or a number v (<<v>>).  The code puts no guard
\* on its sign.
NoTgr == <<>>
TgrValues == {NoTgr} \cup { <<v>> : v \in -1 .. 2 }

RECURSIVE SumSeq(_)
SumSeq(s) == IF s = <<>> THEN 0 ELSE s[1] + SumSeq(Tail(s))

\* JavaScript truthiness of a tgr value (undefined and 0 are falsy).
Truthy(v) == v # NoTgr /\ v[1] # 0

\* line 20: var weight = target.tgr || 1.0
targetWeight(target) == IF Truthy(target.tgr) THEN target.tgr[1] ELSE 1

\* lines 15-23: the array weights
groupWeights(g) == [i \in 1 .. Len(g) |-> targetWeight(g[i])]

\* line 22: totalWeight
totalWeight(w) == SumSeq(w)

\* line 26: Math.random() * totalWeight, kept multiplied by RandSteps
randomValue(k, w) == k * totalWeight(w)

\* A comparison that misses the draw landing exactly on a cumulative weight.
drawReachedStrict(rv, weightSum) == rv < weightSum * RandSteps

\* line 31: randomValue <= weightSum
drawReached(rv, weightSum) == rv <= weightSum * RandSteps

\* A loop that does not return after setTarget.
RECURSIVE selectLoopNoReturn(_, _, _, _, _)
selectLoopNoReturn(g, w, rv, i, weightSum) ==
    IF i > Len(g)
    THEN <<g[1].index>>
    ELSE IF rv <= (weightSum + w[i]) * RandSteps
         THEN <<g[i].index>> \o selectLoopNoReturn(g, w, rv, i + 1, weightSum + w[i])
         ELSE selectLoopNoReturn(g, w, rv, i + 1, weightSum + w[i])

\* lines 29-38: the selection loop from position i with the running weightSum,
\* then the fallback; the result is the list of setTarget arguments.
RECURSIVE selectLoop(_, _, _, _, _)
selectLoop(g, w, rv, i, weightSum) ==
    IF i > Len(g)
    THEN <<g[1].index>>
    ELSE IF drawReached(rv, weightSum + w[i])
         THEN <<g[i].index>>
         ELSE selectLoop(g, w, rv, i + 1, weightSum + w[i])

\* lines 10-39: AIManager.setRandomTarget, as the setTarget calls it makes
setRandomTarget(g, k) ==
    IF Len(g) <= 0
    THEN <<>>
    ELSE selectLoop(g, groupWeights(g), randomValue(k, groupWeights(g)), 1, 0)

\* The groups: battlers [index, tgr], index() being the battler's position in
\* its unit; the members of a unit picked by a set of positions, in unit order.
RECURSIVE SetToSeq(_)
SetToSeq(S) ==
    IF S = {} THEN <<>>
    ELSE LET m == CHOOSE x \in S : \A y \in S : x <= y
         IN <<m>> \o SetToSeq(S \ {m})

Groups ==
    UNION { { [i \in 1 .. Len(SetToSeq(P)) |->
                 [index |-> SetToSeq(P)[i], tgr |-> t[SetToSeq(P)[i]]]] :
              t \in [0 .. UnitSize - 1 -> TgrValues] } :
            P \in SUBSET (0 .. UnitSize - 1) }

IdleTarget ==
    /\ group = <<>>
    /\ random = 0
    /\ weights = <<>>
    /\ setTargetCalls = <<>>

IdleScene ==
    /\ actorInfoWindow = [created |-> FALSE]
    /\ frame = [op |-> "none"]

IdleCall ==
    /\ call = [fn |-> "none"]
    /\ ret = <<>>

InitTarget ==
    /\ group \in Groups
    /\ random \in 0 .. RandSteps - 1
    /\ weights = <<>>
    /\ setTargetCalls = <<>>
    /\ pc = "call"
    /\ IdleScene /\ IdleCall

SetRandomTarget ==
    /\ pc = "call"
    /\ weights' = groupWeights(group)
    /\ setTargetCalls' = setRandomTarget(group, random)
    /\ pc' = "done"
    /\ UNCHANGED <<group, random, actorInfoWindow, frame, call, ret>>

NextTarget == SetRandomTarget

SpecTarget == InitTarget /\ [][NextTarget]_vars

(***************************************************************************)
(* KOFFIN_InBattleStatus.js: states and their notes                        *)
(*                                                                         *)
(* A state is an entry of the host's $dataStates: a record id, name, note, *)
(* traits, speed, autoRemovalTiming, removeByDamage, iconIndex; entry 0 of *)
(* $dataStates is null and is the record with id 0.                        *)
(* A note is the sequence of its notetags <name> or <name:arg>, the name   *)
(* spelled as in the note and arg a text (empty when the tag has none).    *)
(***************************************************************************)

Tag(name, arg) == [name |-> name, arg |-> arg]

\* The /i flag of the note patterns: the spellings of a tag name fold to one.
lowerCase(name) ==
    CASE name \in {"HideInStatus", "hideinstatus", "HIDEINSTATUS"} -> "hideinstatus"
      [] name \in {"Desc", "desc", "DESC"} -> "desc"
      [] name \in {"StatusIcon", "statusicon"} -> "statusicon"
      [] OTHER -> name

\* A pattern that lacks the /i flag.
matchHideInStatusCaseSensitive(note) ==
    \E i \in 1 .. Len(note) : note[i].name = "HideInStatus" /\ note[i].arg = <<>>

\* line 55: state.note.match(/<HideInStatus>/i)
matchHideInStatus(note) ==
    \E i \in 1 .. Len(note) :
        lowerCase(note[i].name) = "hideinstatus" /\ note[i].arg = <<>>

\* lines 53-56: isStateHiddenInMenu, as the truth value of what it returns
isStateHiddenInMenu(state) ==
    IF state.id = 0 THEN FALSE
    ELSE state.note # <<>> /\ matchHideInStatus(state.note)

\* lines 219-221: Array.prototype.filter with the callback of filterStates
RECURSIVE filterLoop(_)
filterLoop(states) ==
    IF states = <<>> THEN <<>>
    ELSE IF Head(states).id # 0 /\ ~isStateHiddenInMenu(Head(states))
         THEN <<Head(states)>> \o filterLoop(Tail(states))
         ELSE filterLoop(Tail(states))

\* lines 217-222: filterStates; the argument is <<>> when absent (null or
\* undefined) and <<list>> otherwise
filterStates(statesArg) ==
    IF statesArg = <<>> THEN <<>> ELSE filterLoop(statesArg[1])

\* lines 227-230: getFilteredStateCount; the actor is <<>> when absent and
\* <<list>>, the list being actor.states(), otherwise
getFilteredStateCount(actorArg) ==
    IF actorArg = <<>> THEN 0 ELSE Len(filterStates(actorArg))

(***************************************************************************)
(* State descriptions.  A trait is a record code, dataId, value, the value *)
(* kept in thousandths (1500 is 1.5).                                      *)
(***************************************************************************)

\* Game_BattlerBase.TRAIT_PARAM, TRAIT_XPARAM, TRAIT_SPARAM (host constants)
TRAIT_PARAM == 21
TRAIT_XPARAM == 22
TRAIT_SPARAM == 23

Trait(code, dataId, value) == [code |-> code, dataId |-> dataId, value |-> value]

\* Math.round(n / d) for d > 0: floor(n / d + 1/2)
mathRound(n, d) == (2 * n + d) \div (2 * d)

digit(n) == <<"0", "1", "2", "3", "4", "5", "6", "7", "8", "9">>[n + 1]

RECURSIVE naturalToText(_)
naturalToText(n) ==
    IF n < 10 THEN <<digit(n)>> ELSE naturalToText(n \div 10) \o <<digit(n % 10)>>

\* Number to string conversion of an integer
numberToText(n) == IF n < 0 THEN <<"-">> \o naturalToText(-n) ELSE naturalToText(n)

\* lines 82 and 93: paramNames
paramNames ==
    << <<"H","P">>, <<"M","P">>, <<"A","T","K">>, <<"D","E","F">>,
       <<"M","A","T">>, <<"M","D","F">>, <<"A","G","I">>, <<"L","U","K">> >>

xparamNames ==
    << <<"H","I","T">>, <<"E","V","A">>, <<"C","R","I">>, <<"C","E","V">>,
       <<"M","E","V">>, <<"M","R","F">>, <<"C","N","T">>, <<"H","R","G">>,
       <<"M","R","G">>, <<"T","R","G">> >>

\* lines 87, 98, 109: `${percentageChange > 0 ? "+" : ""}${percentageChange}% ${name}`
percentText(percentageChange, name) ==
    (IF percentageChange > 0 THEN <<"+">> ELSE <<>>)
        \o numberToText(percentageChange) \o <<"%", " ">> \o name

\* lines 74-115: convertTraitEffect
convertTraitEffect(trait) ==
    IF trait.code = TRAIT_PARAM
    THEN IF trait.dataId < Len(paramNames)
         THEN LET percentageChange == mathRound(trait.value - 1000, 10)
              IN IF percentageChange # 0
                 THEN percentText(percentageChange, paramNames[trait.dataId + 1])
                 ELSE <<>>
         ELSE <<>>
    ELSE IF trait.code = TRAIT_XPARAM
    THEN IF trait.dataId < Len(xparamNames)
         THEN LET percentageChange == mathRound(trait.value, 10)
              IN IF percentageChange # 0
                 THEN percentText(percentageChange, xparamNames[trait.dataId + 1])
                 ELSE <<>>
         ELSE <<>>
    ELSE IF trait.code = TRAIT_SPARAM
    THEN IF trait.dataId = 0
         THEN LET percentageChange == mathRound(trait.value - 1000, 10)
              IN IF percentageChange # 0
                 THEN percentText(percentageChange, <<"E","L","E","M","E","N","T">>)
                 ELSE <<>>
         ELSE <<>>
    ELSE <<>>

\* lines 59-64: convertRateString(state.speed / 100), the argument being
\* state.speed; rate * 100 is printed as state.speed
convertRateString(speed) ==
    IF speed = 0 THEN <<>>
    ELSE (IF speed > 0 THEN <<"+">> ELSE <<>>)
            \o numberToText(speed) \o <<"%", " ", "R", "A", "T", "E">> \o <<" ">>

\* Array.prototype.join
RECURSIVE join(_, _)
join(pieces, sep) ==
    IF pieces = <<>> THEN <<>>
    ELSE IF Len(pieces) = 1 THEN pieces[1]
    ELSE pieces[1] \o sep \o join(Tail(pieces), sep)

\* lines 129-134: the effect texts of the traits, empty ones left out
RECURSIVE traitDescriptions(_)
traitDescriptions(traits) ==
    IF traits = <<>> THEN <<>>
    ELSE (IF convertTraitEffect(Head(traits)) # <<>>
          THEN <<convertTraitEffect(Head(traits))>> ELSE <<>>)
            \o traitDescriptions(Tail(traits))

RECURSIVE stripLeadingSpaces(_)
stripLeadingSpaces(text) ==
    IF Len(text) > 1 /\ Head(text) = " " THEN stripLeadingSpaces(Tail(text)) ELSE text

\* line 120: state.note.match(/<Desc:\s*(.+?)>/i); <<>> when there is no match
\* and <<captured text>> otherwise
RECURSIVE matchDesc(_)
matchDesc(note) ==
    IF note = <<>> THEN <<>>
    ELSE IF lowerCase(Head(note).name) = "desc" /\ Head(note).arg # <<>>
         THEN <<stripLeadingSpaces(Head(note).arg)>>
         ELSE matchDesc(Tail(note))

\* lines 118-157: getStateDescription
getStateDescription(state) ==
    IF matchDesc(state.note) # <<>>
    THEN matchDesc(state.note)[1]
    ELSE LET descriptions ==
                traitDescriptions(state.traits)
                  \o (IF state.speed > 0 THEN <<convertRateString(state.speed)>> ELSE <<>>)
                  \o (IF state.autoRemovalTiming > 0 THEN << <<>> >> ELSE <<>>)
                  \o (IF state.removeByDamage THEN << <<>> >> ELSE <<>>)
         IN IF Len(descriptions) = 0
            THEN <<"N","O"," ","E","F","F","E","C","T","S">>
            ELSE join(descriptions, <<" ">>)

(***************************************************************************)
(* Window_ActorInfo drawing.  A draw call on this.contents is a record     *)
(* part, text, icon, x, y, width, height, fontSize; part names what the    *)
(* call draws ("icon", "name", "line", "title", "empty").                  *)
(* An actor is the host's Game_Actor the window refers to: a record id,    *)
(* states (what states() returns) and turns (what stateTurns(id) returns   *)
(* for the states it is affected by).                                      *)
(***************************************************************************)

\* lines 36, 39, 40: plugin parameters
windowWidth == 480
windowY == 100
slideSpeed == 15

\* lines 609-611: standardPadding
standardPadding == 8

\* lines 595-597: contentsWidth
contentsWidth == windowWidth - standardPadding * 2

DrawText(part, text, x, y, width, height, fontSize) ==
    [part |-> part, text |-> text, icon |-> 0, x |-> x, y |-> y,
     width |-> width, height |-> height, fontSize |-> fontSize]

DrawIcon(iconIndex, x, y) ==
    [part |-> "icon", text |-> <<>>, icon |-> iconIndex, x |-> x, y |-> y,
     width |-> 0, height |-> 0, fontSize |-> 0]

isDigit(c) == c \in {"0", "1", "2", "3", "4", "5", "6", "7", "8", "9"}

digitValue(c) == CHOOSE n \in 0 .. 9 : digit(n) = c

\* parseInt of a text of digits
RECURSIVE parseInt(_)
parseInt(text) ==
    IF text = <<>> THEN 0
    ELSE parseInt(SubSeq(text, 1, Len(text) - 1)) * 10 + digitValue(text[Len(text)])

\* line 161: state.note.match(/<StatusIcon:\s*(\d+)>/i); <<>> when there is no
\* match and <<digits>> otherwise
RECURSIVE matchStatusIcon(_)
matchStatusIcon(note) ==
    IF note = <<>> THEN <<>>
    ELSE LET digits == stripLeadingSpaces(Head(note).arg)
         IN IF /\ lowerCase(Head(note).name) = "statusicon"
               /\ digits # <<>>
               /\ \A i \in 1 .. Len(digits) : isDigit(digits[i])
            THEN <<digits>>
            ELSE matchStatusIcon(Tail(note))

\* lines 160-166: getStateIconIndex
getStateIconIndex(state) ==
    IF matchStatusIcon(state.note) # <<>>
    THEN parseInt(matchStatusIcon(state.note)[1])
    ELSE state.iconIndex

\* Bitmap.measureTextWidth (host): the sum of the glyph widths at the font
\* size; W and M are as wide as the font size, a space a quarter of it, any
\* other glyph half of it.
RECURSIVE measureTextWidth(_, _)
measureTextWidth(text, fontSize) ==
    IF text = <<>> THEN 0
    ELSE (IF Head(text) \in {"W", "M"} THEN fontSize
          ELSE IF Head(text) = " " THEN fontSize \div 4
          ELSE fontSize \div 2)
            + measureTextWidth(Tail(text), fontSize)

\* String.prototype.split(' '): current is the word being read
RECURSIVE splitLoop(_, _)
splitLoop(text, current) ==
    IF text = <<>> THEN <<current>>
    ELSE IF Head(text) = " "
         THEN <<current>> \o splitLoop(Tail(text), <<>>)
         ELSE splitLoop(Tail(text), current \o <<Head(text)>>)

split(text) == splitLoop(text, <<>>)

\* lines 561-574: the wrapping loop from word w, then the last line
RECURSIVE wrapLoop(_, _, _, _, _, _)
wrapLoop(words, w, lines, currentLine, maxWidth, fontSize) ==
    IF w > Len(words)
    THEN IF currentLine # <<>> /\ Len(lines) < 3
         THEN Append(lines, currentLine)
         ELSE lines
    ELSE LET testLine ==
                currentLine \o (IF currentLine # <<>> THEN <<" ">> ELSE <<>>) \o words[w]
         IN IF measureTextWidth(testLine, fontSize) > maxWidth
            THEN IF Len(lines) + 1 >= 3
                 THEN Append(lines, currentLine)
                 ELSE wrapLoop(words, w + 1, Append(lines, currentLine), words[w],
                               maxWidth, fontSize)
            ELSE wrapLoop(words, w + 1, lines, testLine, maxWidth, fontSize)

\* lines 556-574: the lines of a description
wrapDescription(description, maxWidth, fontSize) ==
    wrapLoop(split(description), 1, <<>>, <<>>, maxWidth, fontSize)

\* Game_BattlerBase.isStateAffected (host)
isStateAffected(actor, stateId) ==
    \E i \in 1 .. Len(actor.states) : actor.states[i].id = stateId

\* lines 530-537: turnText
turnText(actor, state) ==
    IF isStateAffected(actor, state.id) /\ state.autoRemovalTiming > 0
    THEN IF actor.turns > 0
         THEN <<" ", "(">> \o numberToText(actor.turns)
                \o <<" ", "T", "U", "R", "N", "S", ")">>
         ELSE <<>>
    ELSE <<>>

\* lines 576-583: the draw calls of the lines, from line l at lineY
RECURSIVE drawLines(_, _, _, _, _, _)
drawLines(lines, l, x, lineY, maxWidth, fontSize) ==
    IF l > Len(lines) \/ l > 3 THEN <<>>
    ELSE <<DrawText("line", lines[l], x, lineY, maxWidth, 12, fontSize)>>
            \o drawLines(lines, l + 1, x, lineY + 12, maxWidth, fontSize)

\* lines 520-590: drawState, as the draw calls it makes; stateColumns is
\* this._stateColumns and actor the actor this._actor refers to
drawState(stateColumns, actor, state, x, y, width) ==
    IF state.id = 0 THEN <<>>
    ELSE LET iconSize == 32
             description == getStateDescription(state)
             maxWidth == width - iconSize - 8
             fontSize == IF stateColumns > 2 THEN 14 ELSE 16
         IN <<DrawIcon(getStateIconIndex(state), x, y)>>
              \o <<DrawText("name", state.name \o turnText(actor, state),
                            x + iconSize + 4, y, width - iconSize - 4, 18,
                            IF stateColumns > 2 THEN 16 ELSE 18)>>
              \o (IF description # <<>>
                  THEN drawLines(wrapDescription(description, maxWidth, fontSize), 1,
                                 x + iconSize + 4, y + 15, maxWidth, fontSize)
                  ELSE <<>>)

\* A column rule whose thresholds are off by one.
stateColumnsOffByOne(stateCount) ==
    IF stateCount >= 9 THEN 4 ELSE IF stateCount >= 6 THEN 3 ELSE 2

\* line 498: this._stateColumns
stateColumnsFor(stateCount) ==
    IF stateCount > 9 THEN 4 ELSE IF stateCount > 6 THEN 3 ELSE 2

\* line 499: colWidth
colWidth(stateColumns) == (contentsWidth - 16) \div stateColumns

\* lines 505-514: the loop over the states from index i (0-based)
RECURSIVE drawStatesLoop(_, _, _, _)
drawStatesLoop(states, i, stateColumns, actor) ==
    IF i >= Len(states) THEN <<>>
    ELSE LET col == i % stateColumns
             row == i \div stateColumns
             stateX == 8 + col * colWidth(stateColumns)
             stateY == (85 + 26) + row * 60
         IN drawState(stateColumns, actor, states[i + 1], stateX, stateY,
                      colWidth(stateColumns) - 8)
              \o drawStatesLoop(states, i + 1, stateColumns, actor)

\* lines 474-515: drawStatesSection with this._actor referring to actor (an
\* actor is present: refresh returns before the call otherwise); the result
\* is the new this._stateColumns and the draw calls
drawStatesSection(stateColumns, actor) ==
    LET states == filterStates(<<actor.states>>)
        stateCount == Len(states)
    IN IF stateCount = 0
       THEN [stateColumns |-> stateColumns,
             draws |-> <<DrawText("empty",
                           <<"N","O"," ","E","F","F","E","C","T","S"," ",
                             "A","C","T","I","V","E">>,
                           8 + 150, 85 + 75, contentsWidth - 16, 22, 24)>>]
       ELSE [stateColumns |-> stateColumnsFor(stateCount),
             draws |->
                <<DrawText("title",
                     <<"S","T","A","T","E","S"," ","(">> \o numberToText(stateCount)
                        \o <<")">>,
                     8 + 175, 85 - 2, contentsWidth - 16, 22, 24)>>
                  \o drawStatesLoop(states, 0, stateColumnsFor(stateCount), actor)]

(***************************************************************************)
(* filterStates and getFilteredStateCount on bounded inputs                *)
(***************************************************************************)

State(id, name, note, traits, speed, timing, byDamage, icon) ==
    [id |-> id, name |-> name, note |-> note, traits |-> traits, speed |-> speed,
     autoRemovalTiming |-> timing, removeByDamage |-> byDamage, iconIndex |-> icon]

\* $dataStates[0]
NullState == State(0, <<>>, <<>>, <<>>, 0, 0, FALSE, 0)

\* States that differ in their notes only.
PlainState == State(1, <<"S","A","D">>, <<>>, <<>>, 0, 0, FALSE, 1)
OtherTagState == State(2, <<"H","A","P","P","Y">>, <<Tag("Other", <<>>)>>, <<>>, 0, 0, FALSE, 2)
HiddenState == State(3, <<"T","O","A","S","T">>, <<Tag("HideInStatus", <<>>)>>, <<>>, 0, 0, FALSE, 3)
HiddenLowerState ==
    State(4, <<"P","L","O","T">>, <<Tag("Other", <<>>), Tag("hideinstatus", <<>>)>>,
          <<>>, 0, 0, FALSE, 4)

FilterPool == {NullState, PlainState, OtherTagState, HiddenState, HiddenLowerState}

SeqsUpTo(S, n) == UNION { [1 .. k -> S] : k \in 0 .. n }

FilterCalls ==
    [fn : {"filterStates", "getFilteredStateCount"},
     arg : {<<>>} \cup { <<l>> : l \in SeqsUpTo(FilterPool, MaxFilterLen) }]

InitFilter ==
    /\ call \in FilterCalls
    /\ ret = <<>>
    /\ pc = "call"
    /\ IdleTarget /\ IdleScene

FilterStates ==
    /\ pc = "call" /\ call.fn = "filterStates"
    /\ ret' = filterStates(call.arg)
    /\ pc' = "done"
    /\ UNCHANGED <<group, random, weights, setTargetCalls, actorInfoWindow, frame, call>>

GetFilteredStateCount ==
    /\ pc = "call" /\ call.fn = "getFilteredStateCount"
    /\ ret' = <<getFilteredStateCount(call.arg)>>
    /\ pc' = "done"
    /\ UNCHANGED <<group, random, weights, setTargetCalls, actorInfoWindow, frame, call>>

NextFilter == FilterStates \/ GetFilteredStateCount

SpecFilter == InitFilter /\ [][NextFilter]_vars

(***************************************************************************)
(* getStateDescription on bounded inputs                                   *)
(***************************************************************************)

\* +50% ATK, -25% DEF, an AGI rate that rounds to no change, a parameter id
\* past the names, +10% HIT, +100% ELEMENT, a special parameter other than
\* 0, and a trait of another code (14, state resist).
TraitPool ==
    { Trait(TRAIT_PARAM, 2, 1500), Trait(TRAIT_PARAM, 3, 750),
      Trait(TRAIT_PARAM, 6, 1004), Trait(TRAIT_PARAM, 8, 2000),
      Trait(TRAIT_XPARAM, 0, 100), Trait(TRAIT_SPARAM, 0, 2000),
      Trait(TRAIT_SPARAM, 1, 500), Trait(14, 3, 0) }

DescNotes ==
    { <<>>, <<Tag("Other", <<>>)>>,
      <<Tag("Desc", <<" ", "H", "I", "T", "S", " ", "A", "L", "L">>)>> }

DescStates ==
    { State(1, <<"S","A","D">>, n, t, sp, tm, bd, 1) :
        n \in DescNotes, t \in SeqsUpTo(TraitPool, MaxTraits),
        sp \in {0, 50}, tm \in {0, 1}, bd \in BOOLEAN }

InitDesc ==
    /\ call \in [fn : {"getStateDescription"}, state : DescStates]
    /\ ret = <<>>
    /\ pc = "call"
    /\ IdleTarget /\ IdleScene

GetStateDescription ==
    /\ pc = "call" /\ call.fn = "getStateDescription"
    /\ ret' = getStateDescription(call.state)
    /\ pc' = "done"
    /\ UNCHANGED <<group, random, weights, setTargetCalls, actorInfoWindow, frame, call>>

NextDesc == GetStateDescription

SpecDesc == InitDesc /\ [][NextDesc]_vars

(***************************************************************************)
(* drawState on bounded inputs: states whose description is a <Desc:text>  *)
(* of single-spaced words over a narrow and a wide glyph, or generated     *)
(* from traits; drawn as the first state of a grid of 2, 3 or 4 columns.   *)
(***************************************************************************)

SingleSpaced(text) ==
    /\ text # <<>>
    /\ \A i \in 1 .. Len(split(text)) : split(text)[i] # <<>>

DescTexts == { t \in SeqsUpTo({"a", "W", " "}, MaxText) : SingleSpaced(t) }

WrapStates ==
    { State(1, <<"S","A","D">>, <<Tag("Desc", t)>>, <<>>, 0, 0, FALSE, 1) : t \in DescTexts }
      \cup { State(2, <<"H","A","P","P","Y">>, <<>>, t, 0, 1, FALSE, 2) :
               t \in { <<>>, <<Trait(TRAIT_PARAM, 2, 1500), Trait(TRAIT_SPARAM, 0, 2000)>> } }

Actor(id, states, turns) == [id |-> id, states |-> states, turns |-> turns]

InitWrap ==
    /\ call \in { [fn |-> "drawState", stateColumns |-> c, state |-> st,
                    actor |-> Actor(1, <<st>>, t)] :
                      c \in {2, 3, 4}, st \in WrapStates, t \in {0, 3} }
    /\ ret = <<>>
    /\ pc = "call"
    /\ IdleTarget /\ IdleScene

DrawState ==
    /\ pc = "call" /\ call.fn = "drawState"
    /\ ret' = drawState(call.stateColumns, call.actor, call.state,
                        8, 85 + 26, colWidth(call.stateColumns) - 8)
    /\ pc' = "done"
    /\ UNCHANGED <<group, random, weights, setTargetCalls, actorInfoWindow, frame, call>>

NextWrap == DrawState

SpecWrap == InitWrap /\ [][NextWrap]_vars

(***************************************************************************)
(* drawStatesSection on bounded inputs: an actor with states 1 .. n, those *)
(* in a set H carrying <HideInStatus>.                                     *)
(***************************************************************************)

GridState(i, hidden) ==
    State(i, <<"S">> \o numberToText(i),
          IF hidden THEN <<Tag("HideInStatus", <<>>)>> ELSE <<>>,
          <<>>, 0, 0, FALSE, i)

GridActors ==
    UNION { { Actor(1, [i \in 1 .. n |-> GridState(i, i \in H)], 0) :
                H \in SUBSET (1 .. n) } : n \in 0 .. MaxGridStates }

InitGrid ==
    /\ call \in [fn : {"drawStatesSection"}, stateColumns : {2}, actor : GridActors]
    /\ ret = <<>>
    /\ pc = "call"
    /\ IdleTarget /\ IdleScene

DrawStatesSection ==
    /\ pc = "call" /\ call.fn = "drawStatesSection"
    /\ ret' = <<drawStatesSection(call.stateColumns, call.actor)>>
    /\ pc' = "done"
    /\ UNCHANGED <<group, random, weights, setTargetCalls, actorInfoWindow, frame, call>>

NextGrid == DrawStatesSection

SpecGrid == InitGrid /\ [][NextGrid]_vars

(***************************************************************************)
(* Window_ActorInfo and the Scene_Battle hooks.                            *)
(*                                                                         *)
(* The window is a record of its fields; _actor is the id of the actor it  *)
(* refers to, 0 for null.  contents is what refresh last drew: the actor   *)
(* whose header and stats were drawn (drawHeader and drawStatsSection draw *)
(* fixed fields of the host's actor and set no field of the window) and    *)
(* the draw calls of drawStatesSection.  y is kept in whole pixels, each   *)
(* slide step rounded towards _targetY.                                    *)
(* A handler gets from the host: whether _actorCommandWindow exists and    *)
(* is active, BattleManager.actor(), Input.isPressed('control'), and the   *)
(* states of the actor the window refers to while the handler runs.        *)
(***************************************************************************)

Actors == {1, 2}
NoActor == 0

\* lines 180-192: initialize
initialize ==
    [_actor |-> NoActor, _visible |-> FALSE, _targetY |-> boxHeight,
     _stateColumns |-> 2, _isActive |-> FALSE, _lastStateCount |-> 0,
     y |-> boxHeight, contents |-> [actor |-> NoActor, states |-> <<>>]]

\* lines 307-315: refresh; actor is the actor this._actor refers to
refresh(w, actor) ==
    IF w._actor = NoActor THEN w
    ELSE [w EXCEPT
            !._stateColumns = drawStatesSection(w._stateColumns, actor).stateColumns,
            !.contents = [actor |-> w._actor,
                          states |-> drawStatesSection(w._stateColumns, actor).draws]]

\* lines 235-241: setActor
setActor(w, actor) ==
    IF w._actor # actor.id
    THEN refresh([w EXCEPT !._actor = actor.id, !._lastStateCount = -1], actor)
    ELSE w

\* lines 246-250: showWindow
showWindow(w) ==
    IF ~w._isActive THEN w
    ELSE [w EXCEPT !._visible = TRUE, !._targetY = windowY]

\* lines 255-258: hideWindow
hideWindow(w) == [w EXCEPT !._visible = FALSE, !._targetY = boxHeight]

\* An activate that leaves _isActive as it is.
activateNothing(w) == w

\* lines 263-265: activate
activate(w) == [w EXCEPT !._isActive = TRUE]

\* lines 270-273: deactivate
deactivate(w) == hideWindow([w EXCEPT !._isActive = FALSE])

\* lines 296-302: refreshIfNeeded
refreshIfNeeded(w, actor) ==
    LET currentStateCount == getFilteredStateCount(<<actor.states>>)
    IN IF currentStateCount # w._lastStateCount
       THEN refresh([w EXCEPT !._lastStateCount = currentStateCount], actor)
       ELSE w

\* lines 282-285: one step of the slide
slide(y, targetY) ==
    IF y > targetY
    THEN (y * (slideSpeed - 1) + targetY) \div slideSpeed
    ELSE IF y < targetY
    THEN -((-(y * (slideSpeed - 1) + targetY)) \div slideSpeed)
    ELSE y

\* lines 278-291: Window_ActorInfo.prototype.update
windowUpdate(w, actor) ==
    LET moved == [w EXCEPT !.y = slide(w.y, w._targetY)]
    IN IF moved._actor # NoActor /\ moved._visible
       THEN refreshIfNeeded(moved, actor)
       ELSE moved

\* lines 637-657: Scene_Battle.prototype.update on the window; commandWindow
\* is "undefined", "inactive" or "active", actorId is BattleManager.actor(),
\* states the states of the actor the window refers to
sceneUpdate(w, commandWindow, actorId, control, states) ==
    LET actor == Actor(actorId, states, 0)
        branched ==
            IF commandWindow = "active"
            THEN IF actorId # NoActor
                 THEN IF control
                      THEN showWindow(activate(setActor(w, actor)))
                      ELSE hideWindow(activate(setActor(w, actor)))
                 ELSE w
            ELSE deactivate(w)
    IN windowUpdate(branched, Actor(branched._actor, states, 0))

\* lines 662-670: Scene_Battle.prototype.startActorCommandSelection
startActorCommandSelection(w, actorId, states) ==
    IF actorId # NoActor
    THEN activate(setActor(w, Actor(actorId, states, 0)))
    ELSE w

SceneStateLists == { <<>>, <<PlainState>>, <<HiddenState, PlainState>> }

\* lines 620-632: after Scene_Battle.prototype.create
InitScene ==
    /\ actorInfoWindow = hideWindow(initialize)
    /\ frame = [op |-> "create", commandWindow |-> "undefined", actor |-> NoActor,
                control |-> FALSE]
    /\ pc = "scene"
    /\ IdleTarget /\ IdleCall

Update ==
    \E commandWindow \in {"undefined", "inactive", "active"},
       actorId \in Actors \cup {NoActor}, control \in BOOLEAN,
       states \in SceneStateLists :
        /\ actorInfoWindow' =
              sceneUpdate(actorInfoWindow, commandWindow, actorId, control, states)
        /\ frame' = [op |-> "update", commandWindow |-> commandWindow,
                     actor |-> actorId, control |-> control]
        /\ UNCHANGED <<group, random, weights, setTargetCalls, call, ret, pc>>

StartActorCommandSelection ==
    \E actorId \in Actors \cup {NoActor}, states \in SceneStateLists :
        /\ actorInfoWindow' = startActorCommandSelection(actorInfoWindow, actorId, states)
        /\ frame' = [op |-> "startActorCommandSelection", commandWindow |-> "active",
                     actor |-> actorId, control |-> FALSE]
        /\ UNCHANGED <<group, random, weights, setTargetCalls, call, ret, pc>>

NextScene == Update \/ StartActorCommandSelection

SpecScene == InitScene /\ [][NextScene]_vars

(***************************************************************************)
(* Claims about setRandomTarget                                            *)
(***************************************************************************)

\* w[1] + ... + w[i] of the recorded weights
CumWeight(i) == SumSeq(SubSeq(weights, 1, i))

\* the positions whose cumulative weight is >= the draw random/RandSteps * total
ReachedPositions ==
    { i \in 1 .. Len(group) :
        random * SumSeq(weights) <= CumWeight(i) * RandSteps }

FirstReached == CHOOSE i \in ReachedPositions : \A j \in ReachedPositions : i <= j

\* C1: for a non-empty group and a draw in [0, total weight), the target set is
\* the index() of the first member whose cumulative weight is >= the draw,
\* and no other target is set.
C1_FirstReachedIsTarget ==
    (pc = "done" /\ Len(group) > 0 /\ SumSeq(weights) > 0) =>
        /\ ReachedPositions # {}
        /\ setTargetCalls = <<group[FirstReached].index>>

\* C1 witness: the draw lands exactly on the cumulative weight of the second
\* of three members, past that of the first, and the second member is set.
C1_Witness ==
    /\ pc = "done" /\ Len(group) >= 3 /\ SumSeq(weights) > 0
    /\ random * SumSeq(weights) = CumWeight(2) * RandSteps
    /\ random * SumSeq(weights) > CumWeight(1) * RandSteps
    /\ setTargetCalls = <<group[2].index>>

\* C2 (as claimed): the weight of each target is its tgr whenever tgr is
\* defined, 0 included, and 1.0 only when tgr is undefined; so the total weight
\* is the sum of the defined tgr values plus one per undefined tgr.
C2_WeightIsTgrWhenDefined ==
    pc = "done" =>
        /\ \A i \in 1 .. Len(group) :
              weights[i] = (IF group[i].tgr = NoTgr THEN 1 ELSE group[i].tgr[1])
        /\ SumSeq(weights) =
              SumSeq([i \in 1 .. Len(group) |->
                        IF group[i].tgr = NoTgr THEN 1 ELSE group[i].tgr[1]])

\* C8: for a non-empty group, whatever the weights and the draw, setTarget is
\* called exactly once; when no cumulative weight reaches the draw the target
\* is the first member of the group.
C8_SetTargetExactlyOnce ==
    (pc = "done" /\ Len(group) > 0) =>
        /\ Len(setTargetCalls) = 1
        /\ ReachedPositions = {} => setTargetCalls[1] = group[1].index

\* C8 witness: no cumulative weight reaches the draw and the fallback ran on
\* a group whose first member is not member 0 of its unit.
C8_Witness ==
    /\ pc = "done" /\ Len(group) >= 2
    /\ ReachedPositions = {}
    /\ group[1].index # 0
    /\ setTargetCalls = <<group[1].index>>

(***************************************************************************)
(* Claims about the Scene_Battle hooks                                     *)
(***************************************************************************)

WindowShown == actorInfoWindow._visible /\ actorInfoWindow._targetY = windowY

WindowHidden == ~actorInfoWindow._visible /\ actorInfoWindow._targetY = boxHeight

\* C3 (as claimed): after every Scene_Battle update the info window is shown
\* (_visible, _targetY = windowY) only if in that frame the actor command
\* window is active and 'control' is pressed; in every other frame it is
\* hidden with _targetY = Graphics.boxHeight.
C3_ShownOnlyWhileControlHeld ==
    frame.op = "update" =>
        IF frame.commandWindow = "active" /\ frame.control
        THEN WindowShown \/ WindowHidden
        ELSE WindowHidden

\* C4: after an update in a frame where the actor command window is active,
\* BattleManager.actor() is not null and 'control' is pressed, the window's
\* _actor is that actor, the window is active and visible and its _targetY is
\* windowY, whatever its state before the frame.
C4_ShownForCurrentActor ==
    (/\ frame.op = "update"
     /\ frame.commandWindow = "active"
     /\ frame.actor # NoActor
     /\ frame.control) =>
        /\ actorInfoWindow._actor = frame.actor
        /\ actorInfoWindow._isActive
        /\ actorInfoWindow._visible
        /\ actorInfoWindow._targetY = windowY

\* C4 witness: such a frame for actor 2 with the window part of the way up,
\* its contents drawn for actor 2 with one state.
C4_Witness ==
    /\ frame.op = "update" /\ frame.commandWindow = "active"
    /\ frame.actor = 2 /\ frame.control
    /\ actorInfoWindow._actor = 2 /\ actorInfoWindow._visible
    /\ actorInfoWindow.y > windowY /\ actorInfoWindow.y < boxHeight
    /\ actorInfoWindow.contents.actor = 2
    /\ actorInfoWindow._lastStateCount = 1

(***************************************************************************)
(* Claims about filterStates                                               *)
(***************************************************************************)

\* the note holds the <HideInStatus> notetag, in any letter case
NoteHasHideTag(note) ==
    \E i \in 1 .. Len(note) :
        /\ note[i].name \in {"HideInStatus", "hideinstatus", "HIDEINSTATUS"}
        /\ note[i].arg = <<>>

ShownInStatus(state) == state # NullState /\ ~NoteHasHideTag(state.note)

\* C5: filterStates returns exactly the non-null states of its input whose
\* note holds no <HideInStatus> notetag, in their order and multiplicity; for
\* an absent list it returns the empty list, and getFilteredStateCount
\* returns 0 for an absent actor.
C5_FilterKeepsShownStates ==
    pc = "done" =>
        /\ (call.fn = "filterStates" /\ call.arg # <<>>) =>
               ret = SelectSeq(call.arg[1], ShownInStatus)
        /\ (call.fn = "filterStates" /\ call.arg = <<>>) => ret = <<>>
        /\ (call.fn = "getFilteredStateCount" /\ call.arg = <<>>) => ret = <<0>>
        /\ (call.fn = "getFilteredStateCount" /\ call.arg # <<>>) =>
               ret = <<Len(SelectSeq(call.arg[1], ShownInStatus))>>

\* C5 witness: a list with a state hidden by a lower-case tag between two
\* occurrences of the same shown state; both occurrences are returned.
C5_Witness ==
    /\ pc = "done" /\ call.fn = "filterStates"
    /\ call.arg = << <<PlainState, HiddenLowerState, PlainState>> >>
    /\ ret = <<PlainState, PlainState>>

(***************************************************************************)
(* Claims about getStateDescription                                        *)
(***************************************************************************)

NoteHasDescTag(note) ==
    \E i \in 1 .. Len(note) : note[i].name \in {"Desc", "desc", "DESC"}

\* the non-empty effect texts of the traits, in order
EffectTexts(traits) ==
    SelectSeq([i \in 1 .. Len(traits) |-> convertTraitEffect(traits[i])],
              LAMBDA t : t # <<>>)

\* C6 (as claimed): for a state without a <Desc:text> notetag the description
\* is not empty: it is the effect texts of the traits joined by spaces, or
\* "NO EFFECTS" when no trait and no positive speed rate contributes a text.
C6_DescriptionNeverEmpty ==
    (pc = "done" /\ ~NoteHasDescTag(call.state.note)) =>
        /\ ret # <<>>
        /\ (EffectTexts(call.state.traits) = <<>> /\ call.state.speed <= 0)
              => ret = <<"N","O"," ","E","F","F","E","C","T","S">>
        /\ (EffectTexts(call.state.traits) # <<>> /\ call.state.speed <= 0)
              => ret = join(EffectTexts(call.state.traits), <<" ">>)

(***************************************************************************)
(* Claims about drawState and drawStatesSection                            *)
(***************************************************************************)

PartsOf(draws, part) == SelectSeq(draws, LAMBDA d : d.part = part)

IsPrefix(p, q) == Len(p) <= Len(q) /\ SubSeq(q, 1, Len(p)) = p

\* C7 (as claimed): the description is wrapped greedily to maxWidth: at most
\* 3 lines are drawn, no drawn line is empty, every drawn line of more than
\* one word measures at most maxWidth, and the drawn lines joined by single
\* spaces are a prefix of the words of the description.
C7_GreedyWrap ==
    (pc = "done" /\ call.fn = "drawState") =>
        LET lines == [l \in 1 .. Len(PartsOf(ret, "line")) |-> PartsOf(ret, "line")[l].text]
            fontSize == IF call.stateColumns > 2 THEN 14 ELSE 16
            maxWidth == (colWidth(call.stateColumns) - 8) - 32 - 8
        IN /\ Len(lines) <= 3
           /\ \A l \in 1 .. Len(lines) :
                 /\ lines[l] # <<>>
                 /\ Len(split(lines[l])) > 1
                       => measureTextWidth(lines[l], fontSize) <= maxWidth
           /\ lines # <<>> =>
                 IsPrefix(split(join(lines, <<" ">>)),
                          split(getStateDescription(call.state)))

\* the icon draws of a drawStatesSection, one per drawState call
IconDraws == PartsOf(ret[1].draws, "icon")

ShownStates == SelectSeq(call.actor.states, ShownInStatus)

CeilDiv(n, d) == (n + d - 1) \div d

\* C9: with n >= 1 filtered states the column count is 4 when n > 9, 3 when
\* 6 < n <= 9 and 2 otherwise; state i is drawn at column i mod columns and
\* row floor(i / columns), each state once, no two in one cell, the rows
\* used being 0 .. ceil(n / columns) - 1; with n = 0 no state is drawn and
\* "NO EFFECTS ACTIVE" is drawn instead.
C9_StateGrid ==
    (pc = "done" /\ call.fn = "drawStatesSection") =>
        LET n == Len(ShownStates)
            columns == IF n > 9 THEN 4 ELSE IF n > 6 THEN 3 ELSE 2
            width == (contentsWidth - 16) \div columns
            Col(d) == (d.x - 8) \div width
            Row(d) == (d.y - 111) \div 60
        IN IF n = 0
           THEN /\ IconDraws = <<>>
                /\ PartsOf(ret[1].draws, "name") = <<>>
                /\ Len(ret[1].draws) = 1
                /\ ret[1].draws[1].text =
                     <<"N","O"," ","E","F","F","E","C","T","S"," ","A","C","T","I","V","E">>
           ELSE /\ ret[1].stateColumns = columns
                /\ Len(IconDraws) = n
                /\ \A i \in 0 .. n - 1 :
                      /\ IconDraws[i + 1].icon = ShownStates[i + 1].iconIndex
                      /\ IconDraws[i + 1].x = 8 + (i % columns) * width
                      /\ IconDraws[i + 1].y = 111 + (i \div columns) * 60
                /\ \A i, j \in 1 .. n :
                      i # j => <<Col(IconDraws[i]), Row(IconDraws[i])>>
                                 # <<Col(IconDraws[j]), Row(IconDraws[j])>>
                /\ { Row(IconDraws[i]) : i \in 1 .. n } = 0 .. CeilDiv(n, columns) - 1
                /\ PartsOf(ret[1].draws, "empty") = <<>>

\* C9 witness: ten shown states among eleven, drawn in four columns, the
\* tenth in column 1 of row 2.
C9_Witness ==
    /\ pc = "done" /\ call.fn = "drawStatesSection"
    /\ Len(call.actor.states) = 11 /\ Len(ShownStates) = 10
    /\ ret[1].stateColumns = 4
    /\ IconDraws[10].x = 8 + 1 * 112 /\ IconDraws[10].y = 111 + 2 * 60

=============================================================================
